---- MODULE Spec2Model ----
(***************************************************************************)
(* Campus energy dashboard (main.py): the ingestion, cleaning, merging and *)
(* aggregation pipeline, with the Building/MeterReading/BuildingManager    *)
(* object model that main feeds from the merged data.                      *)
(*                                                                         *)
(* Time is counted in whole hours since midnight of day 0; day 0 is taken  *)
(* to be a Monday.  kwh values are naturals.  A mean is kept as the pair   *)
(* (sum, count) it is the quotient of.                                     *)
(***************************************************************************)
EXTENDS Integers, Sequences, FiniteSets

\* ---------------------------------------------------------------- bounds
\* most data lines in one csv file
MaxRows == 2
\* most data lines in the csv files of the directory, all together
MaxLines == 3
\* largest kwh value written in a file
MaxKwh == 1
\* latest day a timestamp of a file lies on
MaxDay == 2

\* ------------------------------------------------------------- constants
\* resample("D"): a bucket is one calendar day
HoursPerDay == 24
\* resample("W"): a bucket is one week, ending on Sunday
DaysPerWeek == 7

\* the csv files the data directory may hold: name = stem + suffix
FileStems == <<"A", "B">>

Paths == {[stem |-> FileStems[k], suffix |-> ".csv"] : k \in 1..Len(FileStems)}

StemRank(s) == CHOOSE k \in 1..Len(FileStems) : FileStems[k] = s

VARIABLES
    \* the locals of load_and_merge_data, which last as long as the call
    csv_files,   \* the files glob found, in glob's order
    i,           \* files the loop has gone through
    df,          \* the frame read_csv returned for the file
    frames,      \* the fragments kept so far
    logs,        \* the diagnostic lines so far
    lines_read,  \* the data lines of the files read so far
    log_file,    \* the lines written to log.txt
    data,        \* __main__: df, the merged (then sorted) frame
    summary_df,  \* __main__: the result of building_wise_summary
    manager,     \* __main__: BuildingManager.buildings, name -> meter_readings
    j,           \* __main__: rows of data fed to manager.add_reading
    report,      \* generate_summary_text: total, highest, peak, daily, weekly
    called,      \* the functions of the pipeline main has invoked on data
    stdout,      \* what main printed
    pc           \* where main is

vars == <<csv_files, i, df, frames, logs, log_file, data, summary_df, manager,
          j, report, called, stdout, lines_read, pc>>

\* ------------------------------------------------------------ sequences
RECURSIVE SeqSum(_)
SeqSum(s) == IF s = <<>> THEN 0 ELSE s[1] + SeqSum(Tail(s))

RECURSIVE Flatten(_)
Flatten(ss) == IF ss = <<>> THEN <<>> ELSE ss[1] \o Flatten(Tail(ss))

Range(s) == {s[k] : k \in 1..Len(s)}

IsPrefix(s, t) == Len(s) <= Len(t) /\ SubSeq(t, 1, Len(s)) = s

RECURSIVE Ascending(_)
Ascending(S) ==
    IF S = {} THEN <<>>
    ELSE LET m == CHOOSE x \in S : \A y \in S : x <= y
         IN <<m>> \o Ascending(S \ {m})

SeqsUpTo(S, n) == UNION {[1..m -> S] : m \in 0..n}

\* ------------------------------------------------------- the file's text
\* A timestamp cell as written: the text "day d, h o'clock", or nothing.
\* The fourth names an hour no day has.
RawTimestamps ==
    {[k |-> "text", d |-> 0, h |-> 0],
     [k |-> "text", d |-> 0, h |-> HoursPerDay - 1],
     [k |-> "text", d |-> MaxDay, h |-> 0],
     [k |-> "text", d |-> 0, h |-> HoursPerDay],
     [k |-> "empty", d |-> 0, h |-> 0]}

\* A kwh cell as written: a numeral, some other text, or nothing.
RawKwh ==
    {[k |-> "num", v |-> n] : n \in 0..MaxKwh}
        \cup {[k |-> "junk", v |-> 0], [k |-> "empty", v |-> 0]}

AbsentTs == [k |-> "absent", d |-> 0, h |-> 0]

AbsentKwh == [k |-> "absent", v |-> 0]

RequiredColumns == {"timestamp", "kwh"}

\* A data line with too many fields, which read_csv skips.
BadLine == [bad |-> TRUE, timestamp |-> AbsentTs, kwh |-> AbsentKwh]

\* The data lines a file with header `cols` may hold.
RawLines(cols) ==
    {BadLine} \cup
    [bad : {FALSE},
     timestamp : IF "timestamp" \in cols THEN RawTimestamps ELSE {AbsentTs},
     kwh : IF "kwh" \in cols THEN RawKwh ELSE {AbsentKwh}]

\* The csv files there can be: a header and up to n data lines.
RawFiles(n) ==
    UNION {[columns : {cols}, lines : SeqsUpTo(RawLines(cols), n)] :
              cols \in SUBSET RequiredColumns}

\* ------------------------------------------------------------- read_csv
NaN == [k |-> "nan", v |-> 0]

NaT == [k |-> "NaT", v |-> 0]

\* The kwh column is float64 when every written cell is a numeral, and
\* object (every written cell kept as its string) otherwise.
KwhCell(c, numeric) ==
    CASE c.k = "empty" -> NaN
      [] c.k = "absent" -> c
      [] c.k = "num" -> [k |-> IF numeric THEN "float" ELSE "str", v |-> c.v]
      [] c.k = "junk" -> [k |-> "strjunk", v |-> 0]

TimestampCell(c) ==
    IF c.k = "empty" THEN [k |-> "nan", d |-> 0, h |-> 0] ELSE c

RECURSIVE SkipBadLines(_)
SkipBadLines(lines) ==
    IF lines = <<>> THEN <<>>
    ELSE IF lines[1].bad THEN SkipBadLines(Tail(lines))
    ELSE <<lines[1]>> \o SkipBadLines(Tail(lines))

\* pd.read_csv(file, on_bad_lines="skip")
ReadCsvFrame(file) ==
    LET good == SkipBadLines(file.lines)
        numeric == \A k \in 1..Len(good) : good[k].kwh.k # "junk"
    IN [columns |-> file.columns,
        rows |-> [k \in 1..Len(good) |->
                    [timestamp |-> TimestampCell(good[k].timestamp),
                     kwh |-> KwhCell(good[k].kwh, numeric)]]]

NoFrame == [columns |-> {}, rows |-> <<>>]

\* ---------------------------------------------------- cleaning one frame
\* pd.to_datetime(cell, errors="coerce"): hours since day 0, or NaT
ToDatetime(c) ==
    IF c.k = "text" /\ c.h < HoursPerDay
    THEN [k |-> "ts", v |-> c.d * HoursPerDay + c.h]
    ELSE NaT

\* a slip: rows are filtered on truthiness, which drops a kwh of 0 too
NotNullNorZero(ts, kwh) ==
    ts.k # "NaT" /\ kwh.k # "nan" /\ ~(kwh.k = "float" /\ kwh.v = 0)

\* dropna(subset=["timestamp", "kwh"]) keeps a row with neither null
NotNull(ts, kwh) == ts.k # "NaT" /\ kwh.k # "nan"

RECURSIVE DropNa(_)
DropNa(rows) ==
    IF rows = <<>> THEN <<>>
    ELSE IF NotNull(rows[1].timestamp, rows[1].kwh)
         THEN <<rows[1]>> \o DropNa(Tail(rows))
         ELSE DropNa(Tail(rows))

\* lines 69-71: parse the timestamps, drop the null rows, tag the building
CleanFrame(frame, stem) ==
    LET parsed == [k \in 1..Len(frame.rows) |->
                     [timestamp |-> ToDatetime(frame.rows[k].timestamp),
                      kwh |-> frame.rows[k].kwh]]
        kept == DropNa(parsed)
    IN [k \in 1..Len(kept) |->
          [timestamp |-> kept[k].timestamp.v,
           kwh |-> kept[k].kwh,
           building |-> stem]]

\* a slip: only the kwh column is asked for
HasKwhColumn(frame) == "kwh" \in frame.columns

\* line 65
HasRequiredColumns(frame) == RequiredColumns \subseteq frame.columns

RECURSIVE DropDuplicates(_)
DropDuplicates(rows) ==
    IF rows = <<>> THEN <<>>
    ELSE LET front == DropDuplicates(SubSeq(rows, 1, Len(rows) - 1))
             last == rows[Len(rows)]
         IN IF \E k \in DOMAIN front : front[k] = last
            THEN front ELSE Append(front, last)

\* a slip: pd.concat(frames, ignore_index=True).drop_duplicates()
ConcatDropDuplicates(fs) ==
    LET all == DropDuplicates(Flatten(fs))
    IN [k \in 1..Len(all) |->
          [index |-> k - 1,
           timestamp |-> all[k].timestamp,
           kwh |-> all[k].kwh,
           building |-> all[k].building]]

\* pd.concat(frames, ignore_index=True) if frames else pd.DataFrame()
Concat(fs) ==
    LET all == Flatten(fs)
    IN [k \in 1..Len(all) |->
          [index |-> k - 1,
           timestamp |-> all[k].timestamp,
           kwh |-> all[k].kwh,
           building |-> all[k].building]]

\* a slip: `df is None`, which a DataFrame never is
EmptyIsNone(d) == FALSE

\* df.empty
Empty(d) == d = <<>>

\* ----------------------------------------------------------- the sort
\* df.sort_values("timestamp"): the default sort is not stable, so rows
\* with equal timestamps may come out in any order; the index labels stay
\* with their rows.
RECURSIVE SortOutcomes(_)
SortOutcomes(S) ==
    IF S = {} THEN {<<>>}
    ELSE UNION {{<<r>> \o t : t \in SortOutcomes(S \ {r})} :
                   r \in {x \in S : \A y \in S : x.timestamp <= y.timestamp}}

\* --------------------------------------------------------- aggregation
RECURSIVE KwhSumAt(_, _)
KwhSumAt(d, S) ==
    IF S = {} THEN 0
    ELSE LET k == CHOOSE x \in S : TRUE
         IN d[k].kwh.v + KwhSumAt(d, S \ {k})

\* df["kwh"].sum()
KwhSum(d) == KwhSumAt(d, DOMAIN d)

\* every kwh of the frame is a float (the column is not of object dtype)
NumericKwh(d) == \A k \in DOMAIN d : d[k].kwh.k = "float"

Min(S) == CHOOSE x \in S : \A y \in S : x <= y

Max(S) == CHOOSE x \in S : \A y \in S : x >= y

DayOf(t) == t \div HoursPerDay

\* the positions of the rows a groupby("building") group holds
GroupOf(d, b) == {k \in DOMAIN d : d[k].building = b}

\* a slip: the mean divides by the rows of the whole frame
GroupStatsMeanOverFrame(d, b) ==
    LET g == GroupOf(d, b)
    IN [building |-> b,
        mean |-> <<KwhSumAt(d, g), Len(d)>>,
        min |-> Min({d[k].kwh.v : k \in g}),
        max |-> Max({d[k].kwh.v : k \in g}),
        total |-> KwhSumAt(d, g)]

\* groupby("building")["kwh"].agg(mean, min, max, sum) of one group
GroupStats(d, b) ==
    LET g == GroupOf(d, b)
    IN [building |-> b,
        mean |-> <<KwhSumAt(d, g), Cardinality(g)>>,
        min |-> Min({d[k].kwh.v : k \in g}),
        max |-> Max({d[k].kwh.v : k \in g}),
        total |-> KwhSumAt(d, g)]

RECURSIVE SortedByRank(_)
SortedByRank(B) ==
    IF B = {} THEN <<>>
    ELSE LET b == CHOOSE x \in B : \A y \in B : StemRank(x) <= StemRank(y)
         IN <<b>> \o SortedByRank(B \ {b})

\* building_wise_summary(df): one row per group, the groups in key order
building_wise_summary(d) ==
    LET keys == SortedByRank({d[k].building : k \in DOMAIN d})
    IN [k \in 1..Len(keys) |-> GroupStats(d, keys[k])]

\* resample(...)["kwh"].sum() over buckets `width` hours apart, label[k]
\* being the bucket of row k: one bucket for every label from the first
\* row's to the last row's, empty or not
Resample(d, label, width) ==
    LET lo == Min(Range(label))
        n == (Max(Range(label)) - lo) \div width + 1
    IN [b \in 1..n |->
          [timestamp |-> lo + (b - 1) * width,
           kwh |-> KwhSumAt(d, {k \in DOMAIN d :
                       label[k] = lo + (b - 1) * width})]]

DayLabel(t) == DayOf(t) * HoursPerDay

\* "W" is W-SUN: a bucket is labelled by the Sunday that ends its week
WeekLabel(t) ==
    (DayOf(t) + (DaysPerWeek - 1) - (DayOf(t) % DaysPerWeek)) * HoursPerDay

\* a slip: groupby(date) in place of resample("D"), which leaves out the
\* days without rows
DailyTotalsGroupBy(d) ==
    LET labels == Ascending({DayLabel(d[k].timestamp) : k \in DOMAIN d})
    IN [b \in DOMAIN labels |->
          [timestamp |-> labels[b],
           kwh |-> KwhSumAt(d, {k \in DOMAIN d :
                       DayLabel(d[k].timestamp) = labels[b]})]]

calculate_daily_totals(d) ==
    Resample(d, [k \in DOMAIN d |-> DayLabel(d[k].timestamp)], HoursPerDay)

calculate_weekly_aggregates(d) ==
    Resample(d, [k \in DOMAIN d |-> WeekLabel(d[k].timestamp)],
             DaysPerWeek * HoursPerDay)

\* Series.idxmax(): the label of the first row holding the maximum
IdxMax(d) ==
    LET m == Max({d[k].kwh.v : k \in DOMAIN d})
        first == Min({k \in DOMAIN d : d[k].kwh.v = m})
    IN d[first].index

\* a slip: df.iloc[label], the row at that position
ILoc(d, label) == d[label + 1]

\* df.loc[label]
Loc(d, label) == d[CHOOSE k \in DOMAIN d : d[k].index = label]

\* summary_df.sort_values("total", ascending=False).iloc[0]: a row with
\* the largest total, any of them when several tie (the sort is not stable)
HighestRows(sdf) ==
    {sdf[k] : k \in {x \in DOMAIN sdf :
                        \A y \in DOMAIN sdf : sdf[x].total >= sdf[y].total}}

\* ------------------------------------------------------ the object model
MeterReading(timestamp, kwh) == [timestamp |-> timestamp, kwh |-> kwh]

Building(name) == [name |-> name, meter_readings |-> <<>>]

HasBuilding(buildings, name) ==
    \E k \in DOMAIN buildings : buildings[k].name = name

\* a slip: a new Building is stored under the name at every call
AlwaysCreateBuilding(buildings, name) ==
    IF ~HasBuilding(buildings, name)
    THEN Append(buildings, Building(name))
    ELSE [k \in DOMAIN buildings |->
            IF buildings[k].name = name THEN Building(name) ELSE buildings[k]]

\* BuildingManager.get_or_create_building: the dict after the call
get_or_create_building(buildings, name) ==
    IF ~HasBuilding(buildings, name)
    THEN Append(buildings, Building(name))
    ELSE buildings

\* BuildingManager.add_reading: the dict after the call
add_reading(buildings, name, timestamp, kwh) ==
    LET bs == get_or_create_building(buildings, name)
    IN [k \in DOMAIN bs |->
          IF bs[k].name = name
          THEN [bs[k] EXCEPT !.meter_readings =
                   Append(@, MeterReading(timestamp, kwh))]
          ELSE bs[k]]

\* Building.total_consumption
total_consumption(b) ==
    SeqSum([k \in DOMAIN b.meter_readings |-> b.meter_readings[k].kwh])

\* Building.generate_report, for every building in dict order
generate_all_reports(buildings) ==
    [k \in DOMAIN buildings |->
       [line |-> "Building report",
        name |-> buildings[k].name,
        total |-> total_consumption(buildings[k])]]

Message(text) == [line |-> text, name |-> "", total |-> 0]

NoReport == [total |-> 0, highest |-> <<>>, peak |-> <<>>,
             daily |-> <<>>, weekly |-> <<>>]

\* -------------------------------------------------------------- the run
Init ==
    /\ csv_files \in {s \in SeqsUpTo(Paths, Len(FileStems)) :
                         \A a, b \in DOMAIN s : a # b => s[a] # s[b]}
    /\ i = 0
    /\ df = NoFrame
    /\ frames = <<>>
    /\ logs = <<>>
    /\ log_file = <<>>
    /\ data = <<>>
    /\ summary_df = <<>>
    /\ manager = <<>>
    /\ j = 0
    /\ report = NoReport
    /\ called = {}
    /\ stdout = <<>>
    /\ lines_read = 0
    /\ pc = "load_loop"

LogLine(file, msg) == [file |-> file, msg |-> msg]

\* line 63: read_csv returns the file's frame
ReadCsv ==
    /\ pc = "load_loop"
    /\ i < Len(csv_files)
    /\ \E file \in RawFiles(IF MaxLines - lines_read < MaxRows
                            THEN MaxLines - lines_read ELSE MaxRows) :
          /\ df' = ReadCsvFrame(file)
          /\ lines_read' = lines_read + Len(file.lines)
    /\ pc' = "validate"
    /\ UNCHANGED <<csv_files, i, frames, logs, log_file, data, summary_df,
                   manager, j, report, called, stdout>>

\* a slip: the try encloses the loop, so the first exception ends it
ReadCsvRaisesEndsLoop ==
    /\ pc = "load_loop"
    /\ i < Len(csv_files)
    /\ logs' = Append(logs, LogLine(csv_files[i + 1], "Error"))
    /\ i' = Len(csv_files)
    /\ UNCHANGED <<lines_read, csv_files, df, frames, log_file, data, summary_df,
                   manager, j, report, called, stdout, pc>>

\* lines 63, 74-75: read_csv raises; the file is logged and the loop goes on
ReadCsvRaises ==
    /\ pc = "load_loop"
    /\ i < Len(csv_files)
    /\ logs' = Append(logs, LogLine(csv_files[i + 1], "Error"))
    /\ i' = i + 1
    /\ UNCHANGED <<lines_read, csv_files, df, frames, log_file, data, summary_df,
                   manager, j, report, called, stdout, pc>>

\* lines 65-67: a required column is missing
SkipMissingColumns ==
    /\ pc = "validate"
    /\ ~HasRequiredColumns(df)
    /\ logs' = Append(logs, LogLine(csv_files[i + 1], "Missing required columns."))
    /\ i' = i + 1
    /\ pc' = "load_loop"
    /\ UNCHANGED <<lines_read, csv_files, df, frames, log_file, data, summary_df,
                   manager, j, report, called, stdout>>

\* lines 69-72: the frame is cleaned, tagged and kept
KeepFrame ==
    /\ pc = "validate"
    /\ HasRequiredColumns(df)
    /\ LET clean == CleanFrame(df, csv_files[i + 1].stem)
       IN /\ df' = [columns |-> df.columns \cup {"building"}, rows |-> clean]
          /\ frames' = Append(frames, clean)
    /\ i' = i + 1
    /\ pc' = "load_loop"
    /\ UNCHANGED <<lines_read, csv_files, logs, log_file, data, summary_df,
                   manager, j, report, called, stdout>>

\* lines 77-80, 176: the log is written and the merged frame returned; the
\* function's locals end with the call
WriteLogAndReturn ==
    /\ pc = "load_loop"
    /\ i = Len(csv_files)
    /\ log_file' = logs
    /\ data' = IF frames # <<>> THEN Concat(frames) ELSE <<>>
    /\ csv_files' = <<>>
    /\ i' = 0
    /\ df' = NoFrame
    /\ frames' = <<>>
    /\ logs' = <<>>
    /\ lines_read' = 0
    /\ pc' = "loaded"
    /\ UNCHANGED <<summary_df, manager, j, report, called, stdout>>

\* lines 178-180: df.empty
ExitNoData ==
    /\ pc = "loaded"
    /\ Empty(data)
    /\ stdout' = Append(stdout, Message("No valid CSV data found."))
    /\ pc' = "exited"
    /\ UNCHANGED <<lines_read, csv_files, i, df, frames, logs, log_file, data,
                   summary_df, manager, j, report, called>>

\* lines 182-183
SortValues ==
    /\ pc = "loaded"
    /\ ~Empty(data)
    /\ data' \in SortOutcomes(Range(data))
    /\ pc' = "summary"
    /\ UNCHANGED <<lines_read, csv_files, i, df, frames, logs, log_file,
                   summary_df, manager, j, report, called, stdout>>

\* line 185
BuildingWiseSummary ==
    /\ pc = "summary"
    /\ NumericKwh(data)
    /\ summary_df' = building_wise_summary(data)
    /\ called' = called \cup {"building_wise_summary"}
    /\ pc' = "manager"
    /\ UNCHANGED <<lines_read, csv_files, i, df, frames, logs, log_file, data,
                   manager, j, report, stdout>>

\* line 185: the mean of a column holding strings raises, and nothing
\* catches it
BuildingWiseSummaryRaises ==
    /\ pc = "summary"
    /\ ~NumericKwh(data)
    /\ called' = called \cup {"building_wise_summary"}
    /\ pc' = "raised"
    /\ UNCHANGED <<lines_read, csv_files, i, df, frames, logs, log_file, data,
                   summary_df, manager, j, report, stdout>>

\* lines 189-190: one turn of the loop over the rows
AddReading ==
    /\ pc = "manager"
    /\ j < Len(data)
    /\ manager' = add_reading(manager, data[j + 1].building,
                              data[j + 1].timestamp, data[j + 1].kwh.v)
    /\ j' = j + 1
    /\ UNCHANGED <<lines_read, csv_files, i, df, frames, logs, log_file, data,
                   summary_df, report, called, stdout, pc>>

\* lines 192-193
PrintReports ==
    /\ pc = "manager"
    /\ j = Len(data)
    /\ stdout' = stdout \o generate_all_reports(manager)
    /\ pc' = "dashboard"
    /\ UNCHANGED <<lines_read, csv_files, i, df, frames, logs, log_file, data,
                   summary_df, manager, j, report, called>>

\* line 196: the image is drawn from data; nothing of main changes
CreateDashboard ==
    /\ pc = "dashboard"
    /\ called' = called \cup {"create_dashboard"}
    /\ pc' = "summary_text"
    /\ UNCHANGED <<lines_read, csv_files, i, df, frames, logs, log_file, data,
                   summary_df, manager, j, report, stdout>>

\* lines 197, 140-162, 199
GenerateSummaryText ==
    /\ pc = "summary_text"
    /\ \E highest \in HighestRows(summary_df) :
          report' = [total |-> KwhSum(data),
                     highest |-> highest,
                     peak |-> Loc(data, IdxMax(data)),
                     daily |-> calculate_daily_totals(data),
                     weekly |-> calculate_weekly_aggregates(data)]
    /\ called' = called \cup {"generate_summary_text", "calculate_daily_totals",
                              "calculate_weekly_aggregates"}
    /\ stdout' = stdout \o <<Message("Campus Energy Use Summary"),
                             Message("All tasks completed. Check output folder.")>>
    /\ pc' = "done"
    /\ UNCHANGED <<lines_read, csv_files, i, df, frames, logs, log_file, data,
                   summary_df, manager, j>>

Next ==
    \/ ReadCsv
    \/ ReadCsvRaises
    \/ SkipMissingColumns
    \/ KeepFrame
    \/ WriteLogAndReturn
    \/ ExitNoData
    \/ SortValues
    \/ BuildingWiseSummary
    \/ BuildingWiseSummaryRaises
    \/ AddReading
    \/ PrintReports
    \/ CreateDashboard
    \/ GenerateSummaryText

Spec == Init /\ [][Next]_vars

\* ===================================================================
\* The properties
\* ===================================================================

\* a timestamp cell names a time of day that exists
ParsesAsTime(c) == c.k = "text" /\ c.h \in 0..(HoursPerDay - 1)

HoursOf(c) == c.d * HoursPerDay + c.h

\* the loop is about to clean a frame that has both required columns
CleaningStep == pc = "validate" /\ RequiredColumns \subseteq df.columns

\* the fragment the step appends is the frame's rows at `positions`, in order
AppendsRowsAt(positions) ==
    LET pos == Ascending(positions)
        kept == frames'[Len(frames')]
    IN /\ Len(frames') = Len(frames) + 1
       /\ Len(kept) = Len(pos)
       /\ \A m \in DOMAIN pos :
            /\ kept[m].kwh = df.rows[pos[m]].kwh
            /\ kept[m].timestamp = HoursOf(df.rows[pos[m]].timestamp)

RowsOf(stem, d) == {k \in DOMAIN d : d[k].building = stem}

LinesNaming(log, file) == {k \in DOMAIN log : log[k].file = file}

\* C1: a file that lacks the timestamp or the kwh column is skipped whole:
\* the step that finds the column missing keeps no fragment and appends the
\* one line "<file>: Missing required columns."; such a file has exactly one
\* line in the log and no row in any fragment or in the merged frame.
C1_MissingColumnsSkipped ==
    /\ [][(pc = "validate" /\ ~(RequiredColumns \subseteq df.columns)) =>
            /\ frames' = frames
            /\ logs' = Append(logs, [file |-> csv_files[i + 1],
                                     msg |-> "Missing required columns."])
            /\ i' = i + 1]_vars
    /\ [](\A k \in DOMAIN logs :
            /\ Cardinality(LinesNaming(logs, logs[k].file)) = 1
            /\ \A f \in DOMAIN frames : RowsOf(logs[k].file.stem, frames[f]) = {})
    /\ [](\A k \in DOMAIN log_file :
            /\ Cardinality(LinesNaming(log_file, log_file[k].file)) = 1
            /\ RowsOf(log_file[k].file.stem, data) = {})

\* C1 witness: one file was skipped for its columns, the other gave the rows
C1_Witness ==
    /\ pc = "loaded"
    /\ data # <<>>
    /\ \E k \in DOMAIN log_file : log_file[k].msg = "Missing required columns."

\* C2: a row with an unparseable timestamp or a kwh that is not a number is
\* dropped, the file's other (non-null) rows are kept, and nothing is logged.
C2_CoercionFailuresDropped ==
    [][CleaningStep =>
         /\ logs' = logs
         /\ AppendsRowsAt({k \in DOMAIN df.rows :
                             /\ ParsesAsTime(df.rows[k].timestamp)
                             /\ df.rows[k].kwh.k \notin {"strjunk", "nan"}})]_vars

\* C3: of a frame with both columns, exactly the rows whose timestamp parses
\* and whose kwh is not null are kept, in order; a kwh of 0 is kept.
C3_SurvivesIffParsedAndNonNull ==
    [][CleaningStep =>
         AppendsRowsAt({k \in DOMAIN df.rows :
                          /\ ParsesAsTime(df.rows[k].timestamp)
                          /\ df.rows[k].kwh.k # "nan"})]_vars

\* C3 witness: the fragment just kept holds a row whose kwh is the number 0
C3_Witness ==
    /\ pc = "load_loop"
    /\ i > 0
    /\ frames # <<>>
    /\ df.rows = frames[Len(frames)]
    /\ \E k \in DOMAIN df.rows : df.rows[k].kwh = [k |-> "float", v |-> 0]

RECURSIVE SumOfKwh(_)
SumOfKwh(R) ==
    IF R = {} THEN 0
    ELSE LET r == CHOOSE x \in R : TRUE
         IN r.kwh.v + SumOfKwh(R \ {r})

ReadingsOn(day) == {r \in Range(data) : r.timestamp \div HoursPerDay = day}

DaysRead == {r.timestamp \div HoursPerDay : r \in Range(data)}

Chronological(buckets) ==
    \A a, b \in DOMAIN buckets :
        a < b => buckets[a].timestamp < buckets[b].timestamp

\* the buckets are one per day of `days`, each holding that day's sum
BucketsAreDays(buckets, days) ==
    /\ Len(buckets) = Cardinality(days)
    /\ Chronological(buckets)
    /\ \A day \in days :
         \E b \in DOMAIN buckets :
            /\ buckets[b].timestamp = day * HoursPerDay
            /\ buckets[b].kwh = SumOfKwh(ReadingsOn(day))

MaxKwhAt == {k \in DOMAIN data :
               \A m \in DOMAIN data : data[k].kwh.v >= data[m].kwh.v}

\* C5: the peak of the summary is the first row, in the order of the sorted
\* frame, among those holding the largest kwh.
C5_PeakIsFirstMaximum ==
    pc = "done" =>
        \E k \in MaxKwhAt :
            /\ \A m \in MaxKwhAt : k <= m
            /\ report.peak = data[k]

\* C5 witness: two rows tie at the maximum, and the sort moved the rows
C5_Witness ==
    /\ pc = "done"
    /\ Cardinality(MaxKwhAt) >= 2
    /\ \E a, b \in DOMAIN data : a < b /\ data[a].index > data[b].index
    /\ \E k \in DOMAIN data : k \notin MaxKwhAt /\ \A m \in MaxKwhAt : k < m

BuildingsRead == {r.building : r \in Range(data)}

ReadingsOf(b) == {r \in Range(data) : r.building = b}

\* C6: the summary has exactly one row per building of the frame, with the
\* mean, minimum, maximum and sum of that building's kwh.
C6_SummaryPerBuilding ==
    pc \in {"manager", "dashboard", "summary_text", "done"} =>
        /\ Len(summary_df) = Cardinality(BuildingsRead)
        /\ \A b \in BuildingsRead :
             \E k \in DOMAIN summary_df :
                LET row == summary_df[k]
                    mine == ReadingsOf(b)
                IN /\ row.building = b
                   /\ row.total = SumOfKwh(mine)
                   /\ row.mean[2] > 0
                   /\ row.mean[1] * Cardinality(mine) = SumOfKwh(mine) * row.mean[2]
                   /\ \E r \in mine : r.kwh.v = row.min
                   /\ \A r \in mine : row.min <= r.kwh.v
                   /\ \E r \in mine : r.kwh.v = row.max
                   /\ \A r \in mine : row.max >= r.kwh.v

\* C6 witness: two buildings, one of them with two different readings
C6_Witness ==
    /\ pc = "manager"
    /\ Len(summary_df) = 2
    /\ \E k \in DOMAIN summary_df :
          /\ summary_df[k].min < summary_df[k].max
          /\ summary_df[k].mean = <<1, 2>>

Unlabelled(r) ==
    [timestamp |-> r.timestamp, kwh |-> r.kwh, building |-> r.building]

RECURSIVE SumOfSeq(_)
SumOfSeq(rows) ==
    IF rows = <<>> THEN 0 ELSE rows[1].kwh.v + SumOfSeq(Tail(rows))

\* C7: with two files kept, the merged frame is the first file's fragment
\* followed by the second's, every row once and in its fragment's order, so
\* its kwh sum is the sum of the two fragments' sums.
C7_MergeIsConcatenation ==
    [][(pc = "load_loop" /\ i = Len(csv_files) /\ Len(frames) = 2) =>
         /\ Len(data') = Len(frames[1]) + Len(frames[2])
         /\ \A k \in DOMAIN frames[1] : Unlabelled(data'[k]) = frames[1][k]
         /\ \A k \in DOMAIN frames[2] :
               Unlabelled(data'[Len(frames[1]) + k]) = frames[2][k]
         /\ \A f \in 1..2 : \A k \in DOMAIN frames[f] :
               frames[f][k].building = csv_files[f].stem
         /\ SumOfSeq(data') = SumOfSeq(frames[1]) + SumOfSeq(frames[2])]_vars

\* C7 witness: two well-formed files, each with rows, were merged
C7_Witness ==
    /\ pc = "loaded"
    /\ Len(data) = 3
    /\ Unlabelled(data[1]) = Unlabelled(data[2])
    /\ data[3].building # data[2].building
    /\ \A k \in DOMAIN data : data[k].kwh.k = "float"
    /\ SumOfSeq(data) > 2

\* C8: with no fragment kept the loader returns the empty frame; main then
\* prints the message and stops, and no aggregation ever runs on an empty
\* frame.
C8_NoAggregationOnEmpty ==
    /\ [][(pc = "load_loop" /\ i = Len(csv_files) /\ frames = <<>>) =>
            (pc' = "loaded" /\ data' = <<>>)]_vars
    /\ []((pc \notin {"load_loop", "validate"} /\ data = <<>>) =>
            /\ pc \in {"loaded", "exited"}
            /\ called = {})
    /\ [](pc = "exited" =>
            /\ data = <<>>
            /\ stdout = <<[line |-> "No valid CSV data found.",
                           name |-> "", total |-> 0]>>
            /\ ~ENABLED Next)
    /\ [](called # {} => data # <<>>)

\* C8 witness: two files, both failed, and main stopped with the message
C8_Witness ==
    /\ pc = "exited"
    /\ Len(log_file) = 2
    /\ \E k \in DOMAIN log_file : log_file[k].msg = "Error"
    /\ \E k \in DOMAIN log_file : log_file[k].msg = "Missing required columns."

\* C9: every file the loop has gone through left exactly one outcome, a
\* fragment or a diagnostic line naming it, and the loop goes on to the next
\* file after either, to the last; the two lists only grow by appending.
C9_OneOutcomePerFile ==
    /\ [](Len(frames) + Len(logs) = i)
    /\ [][pc' = "loaded" => Len(frames) + Len(logs) = Len(csv_files)]_vars
    /\ [][pc' \in {"load_loop", "validate"} =>
            /\ IsPrefix(frames, frames')
            /\ IsPrefix(logs, logs')
            /\ i' \in {i, i + 1}
            /\ i' = i + 1 =>
                 \/ /\ logs' = logs
                    /\ Len(frames') = Len(frames) + 1
                    /\ \A k \in DOMAIN frames'[Len(frames')] :
                          frames'[Len(frames')][k].building = csv_files[i'].stem
                 \/ /\ frames' = frames
                    /\ Len(logs') = Len(logs) + 1
                    /\ logs'[Len(logs')].file = csv_files[i']
            /\ i' = i => (frames' = frames /\ logs' = logs)]_vars

\* C9 witness: the first file raised and the second was still loaded
C9_Witness ==
    /\ pc = "load_loop"
    /\ Len(csv_files) = 2
    /\ i = 2
    /\ Len(logs) = 1
    /\ logs[1] = [file |-> csv_files[1], msg |-> "Error"]
    /\ Len(frames) = 1
    /\ frames[1] # <<>>

\* C10: once every row is fed to the manager it holds one Building per
\* building of the frame, and each Building's total_consumption is the total
\* of that building's row of the summary.
C10_ManagerAgreesWithSummary ==
    pc \in {"dashboard", "summary_text", "done"} =>
        /\ {manager[k].name : k \in DOMAIN manager} = BuildingsRead
        /\ Len(manager) = Cardinality(BuildingsRead)
        /\ \A k \in DOMAIN manager :
             \E s \in DOMAIN summary_df :
                /\ summary_df[s].building = manager[k].name
                /\ summary_df[s].total = total_consumption(manager[k])
                /\ summary_df[s].total = SumOfKwh(ReadingsOf(manager[k].name))

\* C10 witness: two buildings, one fed two readings that both count
C10_Witness ==
    /\ pc = "dashboard"
    /\ Len(manager) = 2
    /\ \E k \in DOMAIN manager :
          /\ Len(manager[k].meter_readings) = 2
          /\ total_consumption(manager[k]) = 2

====
